---- MODULE Spec2Model ----
(***************************************************************************)
(* EIP-6963 provider discovery bridge of web3.js                           *)
(* (packages/web3/src/web3_eip6963.ts).                                    *)
(*                                                                         *)
(* The module-level Map eip6963Providers is the registry.  A call of       *)
(* requestEIP6963Providers checks for the window object, attaches a fresh  *)
(* listener closure for the announce event, dispatches the request event   *)
(* and returns the registry.  Announcers are external: they dispatch       *)
(* announce events on the window either synchronously while the request    *)
(* event is being delivered to them, or in event-loop turns of their own.  *)
(*                                                                         *)
(* Objects live in a heap so that "the same Map instance" and "a copy" are *)
(* different things.  A JavaScript Map is a sequence of entries in         *)
(* insertion order.                                                        *)
(***************************************************************************)
EXTENDS Integers, Sequences, FiniteSets

\* ---------------------------------------------------------------- bounds
MaxCalls == 2
MaxAnnounce == 3

\* ------------------------------------------------------- values and events
eip6963announceProvider == "eip6963:announceProvider"
eip6963requestProvider == "eip6963:requestProvider"

\* The JavaScript value undefined, where an object is expected.
Undefined == [undefined |-> TRUE]
\* The JavaScript value undefined as the uuid (a Map key like any other).
UndefinedUuid == "undefined"

Uuids == {"a", "b"}
Names == {"Wallet1", "Wallet2"}
Handles == {"H1"}

\* EIP6963ProviderInfo; icon and rdns are carried along with the name and are
\* never read by the code, so one field stands for the three display fields.
EIP6963ProviderInfo == [uuid : Uuids \cup {UndefinedUuid}, name : Names]

\* EIP6963ProviderDetail as it can arrive at run time: the info may be missing.
EIP6963ProviderDetail == [info : EIP6963ProviderInfo \cup {Undefined}, provider : Handles]

\* Announce events as they can arrive at run time: the detail may be missing.
EIP6963AnnounceProviderEvent ==
    [type : {eip6963announceProvider}, detail : EIP6963ProviderDetail \cup {Undefined}]

\* The request as a bug would have it: an announce event with a payload.
AnnounceInPlaceOfRequest ==
    [type |-> eip6963announceProvider,
     detail |-> [info |-> [uuid |-> "a", name |-> "Wallet1"], provider |-> "H1"]]

\* new Event(Eip6963EventName.eip6963requestProvider): a type tag, no detail.
EIP6963RequestProviderEvent == [type |-> eip6963requestProvider, detail |-> Undefined]

\* ------------------------------------------------------------ JavaScript Map
\* A Map is a sequence of entries [key, value] in insertion order.
NewMap == << >>

MapSize(m) == Len(m)

MapKeys(m) == { m[i].key : i \in 1 .. Len(m) }

MapHas(m, k) == \E i \in 1 .. Len(m) : m[i].key = k

MapGet(m, k) == LET i == CHOOSE j \in 1 .. Len(m) : m[j].key = k IN m[i].value

\* Map.prototype.set as a bug would have it: always appends a new entry.
MapSetAppends(m, k, v) == Append(m, [key |-> k, value |-> v])

\* Map.prototype.set as a bug would have it: the first value for a key stays.
MapSetKeepsFirst(m, k, v) ==
    IF MapHas(m, k) THEN m ELSE Append(m, [key |-> k, value |-> v])

\* Map.prototype.set as a bug would have it: the map holds the last entry only.
MapSetReplacesAll(m, k, v) == << [key |-> k, value |-> v] >>

\* Map.prototype.set: replaces the value of an existing key in place, else
\* appends a new entry.
MapSet(m, k, v) ==
    IF MapHas(m, k)
    THEN [i \in 1 .. Len(m) |-> IF m[i].key = k THEN [key |-> k, value |-> v] ELSE m[i]]
    ELSE Append(m, [key |-> k, value |-> v])

\* ------------------------------------------------------------------- state
VARIABLES
    hasWindow,      \* typeof window !== 'undefined'
    heap,           \* the Map objects of the process, by address
    listeners,      \* event types of the listeners attached to window, in order
    pc,             \* position of the running requestEIP6963Providers call
    calls,          \* number of requestEIP6963Providers invocations so far
    result,         \* outcome of the last finished call
    held,           \* the references returned to callers, one per successful call
    requestCount,   \* request events dispatched on window
    announced,      \* announce events dispatched on window, each with the number
                    \* of listeners run, whether it came while the request was
                    \* being delivered, and the number of calls returned before
    uncaught        \* exceptions thrown by listeners (reported, not propagated)

vars == << hasWindow, heap, listeners, pc, calls, result, held, requestCount,
           announced, uncaught >>

\* export const eip6963Providers = new Map(): the address of the registry.
eip6963Providers == 1

\* The registry's contents.
Registry == heap[eip6963Providers]

\* ------------------------------------------------- requestEIP6963Providers
\* The outcomes of a call.
NoResult == "none"
Returned == "returned"
EnvironmentUnavailable ==
    "window object not available, EIP-6963 is intended to be used within a browser"

\* The guard as a bug would have it: the test is left out.
WindowCheckMissing(w) == FALSE

\* The guard as a bug would have it: the test is inverted.
WindowCheckInverted(w) == w

\* typeof window === 'undefined'
WindowUndefined(w) == ~w

\* window.addEventListener as a bug would have it: the listener is attached
\* for the request event instead of the announce event.
AddEventListenerWrongType(ls, type) == Append(ls, eip6963requestProvider)

\* window.addEventListener(type, <arrow function>): the arrow function is a new
\* object at every evaluation, so the window never sees it as already attached.
AddEventListener(ls, type) == Append(ls, type)

\* The listener as a bug would have it: the entry is filed under the name.
AnnounceListenerKeyedByName(h, event) ==
    IF event.detail = Undefined \/ event.detail.info = Undefined
    THEN [heap |-> h, threw |-> TRUE]
    ELSE [heap |-> [h EXCEPT ![eip6963Providers] =
                        MapSet(@, event.detail.info.name, event.detail)],
          threw |-> FALSE]

\* The listener attached by requestEIP6963Providers:
\*   (event) => { eip6963Providers.set(event.detail.info.uuid, event.detail); }
\* Reading .info of a missing detail, or .uuid of a missing info, throws.
AnnounceListener(h, event) ==
    IF event.detail = Undefined \/ event.detail.info = Undefined
    THEN [heap |-> h, threw |-> TRUE]
    ELSE [heap |-> [h EXCEPT ![eip6963Providers] =
                        MapSet(@, event.detail.info.uuid, event.detail)],
          threw |-> FALSE]

\* window.dispatchEvent(event): runs, in the order of attachment, every
\* listener attached for the event's type, from the i-th on.  An exception
\* thrown by a listener is reported and does not stop the others.
RECURSIVE RunListeners(_, _, _, _)
RunListeners(h, ls, event, i) ==
    IF i > Len(ls)
    THEN [heap |-> h, thrown |-> 0, ran |-> 0]
    ELSE IF ls[i] # event.type
         THEN RunListeners(h, ls, event, i + 1)
         ELSE LET r == AnnounceListener(h, event)
                  rest == RunListeners(r.heap, ls, event, i + 1)
              IN  [heap |-> rest.heap,
                   thrown |-> rest.thrown + (IF r.threw THEN 1 ELSE 0),
                   ran |-> rest.ran + 1]

DispatchEvent(h, ls, event) == RunListeners(h, ls, event, 1)

\* The return statement as a bug would have it: a copy of the registry.
ReturnsCopy(h) == [ref |-> Len(h) + 1, heap |-> Append(h, h[eip6963Providers])]

\* return eip6963Providers: the reference to the module-level Map itself.
ReturnValue(h) == [ref |-> eip6963Providers, heap |-> h]

\* The initial state as a bug would have it: a listener is attached when the
\* module is loaded.
InitListening ==
    /\ hasWindow \in BOOLEAN
    /\ heap = << NewMap >>
    /\ listeners = << eip6963announceProvider >>
    /\ pc = "idle"
    /\ calls = 0
    /\ result = NoResult
    /\ held = << >>
    /\ requestCount = 0
    /\ announced = << >>
    /\ uncaught = 0

Init ==
    /\ hasWindow \in BOOLEAN
    /\ heap = << NewMap >>
    /\ listeners = << >>
    /\ pc = "idle"
    /\ calls = 0
    /\ result = NoResult
    /\ held = << >>
    /\ requestCount = 0
    /\ announced = << >>
    /\ uncaught = 0

\* A call without a window: the guard throws before anything else is done.
RequestThrows ==
    /\ pc = "idle"
    /\ calls < MaxCalls
    /\ WindowUndefined(hasWindow)
    /\ calls' = calls + 1
    /\ result' = EnvironmentUnavailable
    /\ UNCHANGED << hasWindow, heap, listeners, pc, held, requestCount, announced, uncaught >>

\* A call with a window, up to the end of window.addEventListener.
RequestSubscribe ==
    /\ pc = "idle"
    /\ calls < MaxCalls
    /\ ~WindowUndefined(hasWindow)
    /\ calls' = calls + 1
    /\ listeners' = AddEventListener(listeners, eip6963announceProvider)
    /\ pc' = "subscribed"
    /\ UNCHANGED << hasWindow, heap, result, held, requestCount, announced, uncaught >>

\* The dispatch as a bug would have it: only the first call solicits.
RequestDispatchFirstCallOnly ==
    /\ pc = "subscribed"
    /\ LET r == DispatchEvent(heap, listeners, EIP6963RequestProviderEvent)
       IN  /\ heap' = r.heap
           /\ uncaught' = uncaught + r.thrown
    /\ requestCount' = (IF requestCount = 0 THEN 1 ELSE requestCount)
    /\ pc' = "delivering"
    /\ UNCHANGED << hasWindow, listeners, calls, result, held, announced >>

\* window.dispatchEvent(new Event(eip6963requestProvider)) starts: the event is
\* delivered to the listeners attached for its type, then to the announcers.
RequestDispatch ==
    /\ pc = "subscribed"
    /\ LET r == DispatchEvent(heap, listeners, EIP6963RequestProviderEvent)
       IN  /\ heap' = r.heap
           /\ uncaught' = uncaught + r.thrown
    /\ requestCount' = requestCount + 1
    /\ pc' = "delivering"
    /\ UNCHANGED << hasWindow, listeners, calls, result, held, announced >>

\* An announcer dispatches an announce event on the window: synchronously while
\* the request event is being delivered to it, or in an event-loop turn of its
\* own while no call is running.
Announce(event) ==
    /\ hasWindow
    /\ pc \in {"idle", "delivering"}
    /\ Len(announced) < MaxAnnounce
    /\ LET r == DispatchEvent(heap, listeners, event)
       IN  /\ heap' = r.heap
           /\ uncaught' = uncaught + r.thrown
           /\ announced' = Append(announced,
                  [event |-> event, ran |-> r.ran, sync |-> (pc = "delivering"),
                   returned |-> Len(held)])
    /\ UNCHANGED << hasWindow, listeners, pc, calls, result, held, requestCount >>

\* The return as a bug would have it: the call waits for a first announcement.
RequestReturnAwaitsAnnounce ==
    /\ pc = "delivering"
    /\ announced # << >>
    /\ LET r == [ref |-> eip6963Providers, heap |-> heap]
       IN  /\ heap' = r.heap
           /\ held' = Append(held, r.ref)
    /\ result' = Returned
    /\ pc' = "idle"
    /\ UNCHANGED << hasWindow, listeners, calls, requestCount, announced, uncaught >>

\* window.dispatchEvent returns and the call returns the registry.
RequestReturn ==
    /\ pc = "delivering"
    /\ LET r == ReturnValue(heap)
       IN  /\ heap' = r.heap
           /\ held' = Append(held, r.ref)
    /\ result' = Returned
    /\ pc' = "idle"
    /\ UNCHANGED << hasWindow, listeners, calls, requestCount, announced, uncaught >>

Next ==
    \/ RequestThrows
    \/ RequestSubscribe
    \/ RequestDispatch
    \/ \E event \in EIP6963AnnounceProviderEvent : Announce(event)
    \/ RequestReturn

Spec == Init /\ [][Next]_vars

\* The announce events that differ in what the listener does with them: one
\* that makes it throw and one stored under each identifier.
CompletionEvents ==
    { e \in EIP6963AnnounceProviderEvent :
        \/ e.detail = Undefined
        \/ /\ e.detail.info # Undefined
           /\ e.detail.info.uuid \in Uuids
           /\ e.detail.info.name = "Wallet1" }

CompletionNext ==
    \/ RequestThrows
    \/ RequestSubscribe
    \/ RequestDispatch
    \/ \E event \in CompletionEvents : Announce(event)
    \/ RequestReturn

\* The call is straight-line synchronous code: once entered, its statements
\* run to the end.  The announcers are under no obligation to announce.
FairSpec ==
    Init /\ [][CompletionNext]_vars /\ WF_vars(RequestDispatch) /\ WF_vars(RequestReturn)

TypeOK ==
    /\ hasWindow \in BOOLEAN
    /\ pc \in {"idle", "subscribed", "delivering"}
    /\ calls \in 0 .. MaxCalls
    /\ result \in {NoResult, Returned, EnvironmentUnavailable}
    /\ requestCount \in 0 .. MaxCalls
    /\ Len(announced) <= MaxAnnounce
    /\ uncaught \in 0 .. MaxCalls * MaxAnnounce
    /\ Len(listeners) <= MaxCalls
    /\ Len(heap) >= 1

\* ------------------------------------------------------- reading the history
\* The announce event carries an info, so the listener can read its uuid.
HasInfo(event) == event.detail # Undefined /\ event.detail.info # Undefined

\* The j-th announce event was handled by a listener and carried an info.
Recorded(j) == announced[j].ran > 0 /\ HasInfo(announced[j].event)

UuidOf(j) == announced[j].event.detail.info.uuid

\* The identifiers of the announce events handled so far.
RecordedUuids == { UuidOf(j) : j \in { k \in 1 .. Len(announced) : Recorded(k) } }

\* The position of the last handled announce event for id.
LastRecorded(id) ==
    CHOOSE j \in 1 .. Len(announced) :
        /\ Recorded(j) /\ UuidOf(j) = id
        /\ \A k \in (j + 1) .. Len(announced) : ~(Recorded(k) /\ UuidOf(k) = id)

\* The number of entries of m under key k.
EntriesFor(m, k) == Cardinality({ i \in 1 .. Len(m) : m[i].key = k })

\* The number of listeners attached for the announce event.
AnnounceListeners ==
    Cardinality({ i \in 1 .. Len(listeners) : listeners[i] = eip6963announceProvider })

\* ------------------------------------------------------------------ claims

\* C1: a call without a window fails with the environment-unavailable error at
\* once, and the listeners, the events dispatched, the registry and the
\* references handed out are after the call what they were before it.
C1_EnvironmentGuard ==
    [][(calls' # calls /\ ~hasWindow) =>
          /\ result' = EnvironmentUnavailable
          /\ pc' = "idle"
          /\ listeners' = listeners
          /\ requestCount' = requestCount
          /\ announced' = announced
          /\ heap' = heap
          /\ held' = held]_vars

C1_Witness ==
    /\ ~hasWindow
    /\ calls = 2
    /\ result = EnvironmentUnavailable
    /\ listeners = << >>
    /\ requestCount = 0

\* C2: after any number of successful calls exactly one announce listener is
\* attached.
C2_SingleListener ==
    (pc = "idle" /\ Len(held) >= 1) => AnnounceListeners = 1

\* C3: for every identifier, the registry holds exactly one entry for it once
\* an announcement for it was handled, and the entry's value is the detail of
\* the last announcement handled for that identifier.
C3_LastWriteWins ==
    \A id \in RecordedUuids :
        /\ EntriesFor(Registry, id) = 1
        /\ MapGet(Registry, id) = announced[LastRecorded(id)].event.detail

\* Two different details were handled for one identifier, with an announcement
\* for another identifier between them.
C3_Witness ==
    /\ Len(announced) >= 3
    /\ Recorded(1) /\ Recorded(2) /\ Recorded(3)
    /\ UuidOf(1) = UuidOf(3)
    /\ UuidOf(2) # UuidOf(1)
    /\ announced[1].event.detail # announced[3].event.detail
    /\ MapGet(Registry, UuidOf(1)) = announced[3].event.detail

\* C4: the registry has as many entries as there are distinct identifiers among
\* the announce events handled, and its keys are exactly those identifiers
\* (the value undefined of a missing uuid field counts as an identifier).
C4_SizeIsDistinctUuids ==
    /\ MapSize(Registry) = Cardinality(RecordedUuids)
    /\ MapKeys(Registry) = RecordedUuids

\* Three announcements handled, two identifiers among them.
C4_Witness ==
    /\ Len(announced) >= 3
    /\ Recorded(1) /\ Recorded(2) /\ Recorded(3)
    /\ Cardinality(RecordedUuids) = 2
    /\ MapSize(Registry) = 2

\* C5: no step removes a key from the registry.
C5_NeverShrinks ==
    [][MapKeys(heap[eip6963Providers]) \subseteq MapKeys(heap'[eip6963Providers])]_vars

\* Two identifiers recorded, a re-announcement and two calls behind them.
C5_Witness ==
    /\ MapSize(Registry) = 2
    /\ Len(announced) >= 3
    /\ Len(held) >= 2

\* C6: through every reference a call has returned, each announcement handled
\* after that call returned is visible: the identifier is present, with the
\* detail last handled for it.
C6_LiveReference ==
    \A j \in 1 .. Len(announced) :
        Recorded(j) =>
            \A i \in 1 .. announced[j].returned :
                /\ MapHas(heap[held[i]], UuidOf(j))
                /\ MapGet(heap[held[i]], UuidOf(j)) =
                       announced[LastRecorded(UuidOf(j))].event.detail

\* A call returned the empty registry, and an announcement that came in a turn
\* of its own afterwards shows through the reference that call returned.
C6_Witness ==
    /\ Len(held) = 1
    /\ pc = "idle"
    /\ Len(announced) = 1
    /\ Recorded(1)
    /\ ~announced[1].sync
    /\ announced[1].returned = 1
    /\ MapHas(heap[held[1]], UuidOf(1))

\* C7: while the request event is being delivered a listener is attached, so an
\* announcement dispatched during the delivery is handled and is in the
\* registry from then on, the return of the call included.
C7_SubscribedBeforeBroadcast ==
    /\ pc = "delivering" => AnnounceListeners >= 1
    /\ \A j \in 1 .. Len(announced) :
           (announced[j].sync /\ HasInfo(announced[j].event)) =>
               /\ announced[j].ran >= 1
               /\ MapHas(Registry, UuidOf(j))
               /\ \A i \in (announced[j].returned + 1) .. Len(held) :
                      MapHas(heap[held[i]], UuidOf(j))

\* The first call returned a registry holding the announcement made during it.
C7_Witness ==
    /\ calls = 1
    /\ result = Returned
    /\ pc = "idle"
    /\ Len(announced) = 1
    /\ announced[1].sync
    /\ HasInfo(announced[1].event)
    /\ MapGet(heap[held[1]], UuidOf(1)) = announced[1].event.detail

\* C8: with a window and no announce event dispatched so far, every finished
\* call has returned, the mapping it returned is empty, and no error was raised.
C8_NoAnnouncersEmptyMapping ==
    (hasWindow /\ announced = << >>) =>
        /\ result \in {NoResult, Returned}
        /\ (pc = "idle" => Len(held) = calls)
        /\ \A i \in 1 .. Len(held) : heap[held[i]] = NewMap
        /\ uncaught = 0

C8_Witness ==
    /\ hasWindow
    /\ announced = << >>
    /\ calls = 2
    /\ pc = "idle"
    /\ result = Returned
    /\ heap[held[2]] = NewMap

\* C9: a step that changes the registry is the handling of an announce event;
\* the steps of a call and the delivery of the request event leave it as it is.
C9_OnlyAnnounceMutates ==
    [][heap'[eip6963Providers] # heap[eip6963Providers] =>
          /\ Len(announced') = Len(announced) + 1
          /\ pc' = pc
          /\ calls' = calls
          /\ requestCount' = requestCount
          /\ listeners' = listeners
          /\ held' = held]_vars

\* A whole call ran over a registry that held an entry and left it alone.
C9_Witness ==
    /\ Len(held) = 2
    /\ pc = "idle"
    /\ requestCount = 2
    /\ Len(announced) = 1
    /\ Recorded(1)
    /\ announced[1].returned = 1
    /\ Registry = << [key |-> UuidOf(1), value |-> announced[1].event.detail] >>

\* C10: the process has one registry, and every call returns that instance.
C10_OneRegistry ==
    /\ Len(heap) = 1
    /\ \A i \in 1 .. Len(held) : held[i] = eip6963Providers

\* Two calls returned, and the entry recorded by the listener is seen through
\* both references.
C10_Witness ==
    /\ Len(held) = 2
    /\ held[1] = held[2]
    /\ Len(announced) >= 1
    /\ Recorded(1)
    /\ MapHas(heap[held[1]], UuidOf(1))
    /\ MapHas(heap[held[2]], UuidOf(1))

\* C11: handling an announce event never raises an error, whatever its
\* payload: no listener has thrown.
C11_AnnounceNeverThrows ==
    uncaught = 0

\* C12: a call that has passed the window guard completes and returns the
\* mapping, whether announce events come during it, after it or never.
C12_CallCompletes ==
    (pc # "idle") ~> (pc = "idle" /\ result = Returned)

\* A call returned although no announce event had been dispatched, and the
\* announcements came afterwards.
C12_Witness ==
    /\ pc = "idle"
    /\ result = Returned
    /\ Len(held) = calls
    /\ Len(announced) >= 2
    /\ \A j \in 1 .. Len(announced) : ~announced[j].sync /\ announced[j].returned >= 1

\* The registry of a system with one listener attached that handles the first
\* n announce events of the history which found a listener.
RECURSIVE SingleListenerRegistry(_)
SingleListenerRegistry(n) ==
    IF n = 0
    THEN << NewMap >>
    ELSE IF announced[n].ran = 0
         THEN SingleListenerRegistry(n - 1)
         ELSE AnnounceListener(SingleListenerRegistry(n - 1), announced[n].event).heap

\* C13: with k >= 1 listeners attached every announce event is handled once by
\* each listener attached when it came, and the registry is, entry for entry,
\* the registry of a system in which one listener handled the same events.
C13_StackedListenersHarmless ==
    /\ Registry = SingleListenerRegistry(Len(announced))[eip6963Providers]
    /\ \A j \in 1 .. Len(announced) :
           announced[j].ran =
               announced[j].returned + (IF announced[j].sync THEN 1 ELSE 0)

\* Two listeners handled an announcement that re-announced an identifier.
C13_Witness ==
    /\ AnnounceListeners = 2
    /\ Len(announced) >= 2
    /\ Recorded(1) /\ Recorded(2)
    /\ announced[2].ran = 2
    /\ UuidOf(1) = UuidOf(2)
    /\ announced[1].event.detail # announced[2].event.detail
    /\ MapSize(Registry) = 1

\* C14: every entry of the registry is the detail, info and provider handle as
\* announced, of an announce event that was handled, filed under that event's
\* info.uuid.
C14_EntriesAreAnnouncedDetails ==
    \A i \in 1 .. Len(Registry) :
        \E j \in 1 .. Len(announced) :
            /\ Recorded(j)
            /\ UuidOf(j) = Registry[i].key
            /\ Registry[i].value = announced[j].event.detail
            /\ Registry[i].value.info = announced[j].event.detail.info
            /\ Registry[i].value.provider = announced[j].event.detail.provider

\* Two providers with the same display name are filed under their own uuids.
C14_Witness ==
    /\ MapSize(Registry) = 2
    /\ Registry[1].key # Registry[2].key
    /\ Registry[1].value.info.name = Registry[2].value.info.name
    /\ Registry[1].value.info.uuid = Registry[1].key
    /\ Registry[2].value.info.uuid = Registry[2].key

\* C15: the request events dispatched are one per call that passed the window
\* guard and reached its dispatch, the first call and the later ones alike, and
\* none for a failed call; the event is of the request type and has no payload.
C15_OneRequestPerCall ==
    /\ EIP6963RequestProviderEvent.type = eip6963requestProvider
    /\ EIP6963RequestProviderEvent.detail = Undefined
    /\ hasWindow => requestCount = (IF pc = "subscribed" THEN calls - 1 ELSE calls)
    /\ pc = "idle" => requestCount = Len(held)
    /\ ~hasWindow => requestCount = 0

\* A second call has sent a second request.
C15_Witness ==
    /\ hasWindow
    /\ calls = 2
    /\ pc = "idle"
    /\ Len(held) = 2
    /\ requestCount = 2

\* The j-th announce event came before the first successful call.
Early(j) == announced[j].returned = 0 /\ ~announced[j].sync

\* C16: an announce event dispatched before the first successful call finds no
\* listener, and no later step records it: every key of the registry is the
\* identifier of an announce event that came during or after such a call, and
\* the registry is empty as long as no such event was handled.
C16_EarlyAnnouncementsAreLost ==
    /\ \A j \in 1 .. Len(announced) : Early(j) => announced[j].ran = 0
    /\ \A i \in 1 .. Len(Registry) :
           \E j \in 1 .. Len(announced) :
               ~Early(j) /\ HasInfo(announced[j].event) /\ UuidOf(j) = Registry[i].key
    /\ (\A j \in 1 .. Len(announced) : Early(j) \/ ~HasInfo(announced[j].event)) =>
           Registry = NewMap

\* A provider announced itself before the first call; two calls later the
\* registry holds only the other provider, announced after the first call.
C16_Witness ==
    /\ Len(announced) = 2
    /\ Early(1) /\ HasInfo(announced[1].event)
    /\ Recorded(2)
    /\ UuidOf(1) # UuidOf(2)
    /\ Len(held) = 2
    /\ pc = "idle"
    /\ MapKeys(Registry) = {UuidOf(2)}

====
